---------------------------- MODULE Spec2Model ----------------------------
(***************************************************************************)
(* A model of the certificate-inspection logic of src/CertInspector.py:    *)
(* get_cert_info and its process-wide cert_cache, check_cert_transparency, *)
(* analyze_cipher_strength, days_until_expiry and the event loop of main.  *)
(*                                                                         *)
(* Text is modelled as tuples of tokens (TLC cannot look inside a string): *)
(* a cipher name is a tuple of characters, a certificate date is the tuple *)
(* of the fields of "%b %d %H:%M:%S %Y %Z", the text of the domain box is  *)
(* a tuple of blanks and text pieces.                                      *)
(***************************************************************************)
EXTENDS Integers, Sequences, FiniteSets, TLC

VARIABLES
    expiry_date,   \* days_until_expiry: its argument
    utcnow,        \* days_until_expiry: the value datetime.utcnow() returns
    days_left,     \* days_until_expiry: its outcome
    tls,           \* analyze_cipher_strength: what its connection met on the wire
    cipher_info,   \* analyze_cipher_strength: how the call ended
    cert_cache,    \* the module-level dict cert_cache: domain -> cert_info
    gci,           \* the get_cert_info call of each thread: its frame
    pc,            \* main: the line the event loop's thread is at
    domain,        \* main: the local domain
    cert_info,     \* main: the local cert_info
    ct_logs,       \* main: the local ct_logs
    ct,            \* the check_cert_transparency call in flight or just ended
    exc,           \* main: the exception propagating out of the handler
    report,        \* main: the local report
    files,         \* the working directory: file name -> the report dumped in it
    retrieved      \* history: per domain, the records get_cert_info returned to main

expiryVars == <<expiry_date, utcnow, days_left>>
cipherVars == <<tls, cipher_info>>
cacheVars == <<cert_cache, gci>>
mainVars == <<pc, domain, cert_info, ct_logs, ct, exc, report, files, retrieved>>

vars == <<expiry_date, utcnow, days_left, tls, cipher_info, cert_cache, gci,
          pc, domain, cert_info, ct_logs, ct, exc, report, files, retrieved>>

(***************************************************************************)
(* days_until_expiry (src/CertInspector.py:90-93)                          *)
(***************************************************************************)

\* The abbreviated month names %b accepts (C locale), in calendar order.
MonthNames == <<"Jan", "Feb", "Mar", "Apr", "May", "Jun",
                "Jul", "Aug", "Sep", "Oct", "Nov", "Dec">>

\* The zone names %Z accepts: it reads the name and leaves the result naive.
ZoneNames == {"GMT", "UTC"}

MonthNumber(b) == CHOOSE m \in 1..12 : MonthNames[m] = b

IsLeap(y) == (y % 4 = 0) /\ ((y % 100 # 0) \/ (y % 400 = 0))

DaysInMonth(y, m) ==
    IF m = 2 THEN (IF IsLeap(y) THEN 29 ELSE 28)
    ELSE IF m \in {4, 6, 9, 11} THEN 30 ELSE 31

\* datetime.strptime(expiry_date, "%b %d %H:%M:%S %Y %Z"): a naive datetime,
\* or ValueError when a field does not match.
strptime(s) ==
    IF /\ \E m \in 1..12 : MonthNames[m] = s[1]
       /\ s[6] \in 1..9999
       /\ s[2] \in 1..DaysInMonth(s[6], MonthNumber(s[1]))
       /\ s[3] \in 0..23 /\ s[4] \in 0..59 /\ s[5] \in 0..59
       /\ s[7] \in ZoneNames
    THEN [ok |-> TRUE, year |-> s[6], month |-> MonthNumber(s[1]), day |-> s[2],
          hour |-> s[3], minute |-> s[4], second |-> s[5], microsecond |-> 0]
    ELSE [ok |-> FALSE, year |-> 0, month |-> 0, day |-> 0,
          hour |-> 0, minute |-> 0, second |-> 0, microsecond |-> 0]

\* Days before January 1st of year y (datetime._days_before_year).
DaysBeforeYear(y) ==
    (y - 1) * 365 + ((y - 1) \div 4) - ((y - 1) \div 100) + ((y - 1) \div 400)

RECURSIVE DaysBeforeMonth(_, _)
DaysBeforeMonth(y, m) ==
    IF m = 1 THEN 0 ELSE DaysBeforeMonth(y, m - 1) + DaysInMonth(y, m - 1)

\* date.toordinal(): January 1st of year 1 is day 1.
toordinal(dt) == DaysBeforeYear(dt.year) + DaysBeforeMonth(dt.year, dt.month) + dt.day

SecondsOfDay(dt) == dt.second + dt.minute * 60 + dt.hour * 3600

\* timedelta(days, seconds, microseconds).days after normalisation: the
\* microseconds carry into the seconds and the seconds into the days, each
\* with divmod (floor), so seconds and microseconds end non-negative.
TimedeltaDaysTrunc(d, s, us) ==
    LET total == d * 86400 + s
    IN  IF total >= 0 THEN total \div 86400 ELSE -((-total) \div 86400)

TimedeltaDays(d, s, us) ==
    LET s2 == s + (us \div 1000000)
    IN  d + (s2 \div 86400)

\* (expiry - datetime.utcnow()).days: datetime.__sub__ builds
\* timedelta(ordinal difference, second difference, microsecond difference).
days_until_expiry(date, now) ==
    LET expiry == strptime(date)
    IN  IF expiry.ok
        THEN [kind |-> "int",
              val |-> TimedeltaDays(toordinal(expiry) - toordinal(now),
                                    SecondsOfDay(expiry) - SecondsOfDay(now),
                                    expiry.microsecond - now.microsecond)]
        ELSE [kind |-> "ValueError", val |-> 0]

NotCalled == [kind |-> "not called", val |-> 0]

(***************************************************************************)
(* Exceptions and sockets                                                  *)
(***************************************************************************)

\* How socket.create_connection((domain, 443)) and context.wrap_socket can
\* fail: name resolution, a refused or unreachable peer, the kernel giving up
\* on the TCP connect, a rejected certificate chain, a failed negotiation.
SocketErrors ==
    {"gaierror", "ConnectionRefusedError", "TimeoutError",
     "SSLCertVerificationError", "SSLError"}

\* The classes below Exception that the calls modelled can raise (OSError and
\* its subclasses, the errors of requests, ValueError of a body that is no
\* JSON, TypeError).
ExceptionSubclasses ==
    SocketErrors \cup {"timeout", "ConnectTimeout", "ReadTimeout", "ConnectionError",
                       "JSONDecodeError", "TypeError", "ValueError"}

\* The deadline of the sockets of get_cert_info and analyze_cipher_strength:
\* create_connection is given no timeout and no default is set, so there is
\* none (the empty set); a deadline of t seconds is {t}.
SocketTimeout == {}

\* A blocking socket operation whose peer never answers: it raises
\* socket.timeout at the deadline, and without a deadline never returns.
SilentPeer(timeout) == IF timeout = {} THEN "hung" ELSE "timeout"

(***************************************************************************)
(* analyze_cipher_strength (src/CertInspector.py:73-88)                    *)
(***************************************************************************)

\* Python's None, and the shape of a returned dict / a propagating exception /
\* a call that never returns.
None == [kind |-> "None"]
Raised(e) == [kind |-> "raised", exc |-> e]
Hung == [kind |-> "hung"]
Idle == [kind |-> "not called"]

\* sub in s, for str: s has sub as a contiguous substring.
RECURSIVE StrIn(_, _)
StrIn(sub, s) ==
    IF Len(s) < Len(sub) THEN FALSE
    ELSE IF SubSeq(s, 1, Len(sub)) = sub THEN TRUE
    ELSE StrIn(sub, Tail(s))

RC4 == <<"R", "C", "4">>
DES == <<"D", "E", "S">>

\* Line 84, with the bit test off by one.
IsWeakOffByOne(cipher) ==
    StrIn(RC4, cipher[1]) \/ StrIn(DES, cipher[1]) \/ cipher[3] <= 128

\* Line 84: "RC4" in cipher[0] or "DES" in cipher[0] or cipher[2] < 128
\* (cipher is the tuple ssock.cipher() returns; TLA+ tuples count from 1).
IsWeak(cipher) ==
    StrIn(RC4, cipher[1]) \/ StrIn(DES, cipher[1]) \/ cipher[3] < 128

\* An except clause that names only ssl.SSLError.
ExceptSSLErrorOnly(e) == e \in {"SSLError", "SSLCertVerificationError"}

\* Lines 69 and 86, "except Exception": the classes the handler catches.
ExceptException(e) == e \in ExceptionSubclasses

\* The whole call, given what the connection meets: wire.kind is "ok" with the
\* negotiated cipher, "silent" (the peer never answers) or the error raised.
analyze_cipher_strength(wire) ==
    LET met == IF wire.kind = "silent" THEN SilentPeer(SocketTimeout) ELSE wire.kind
    IN  IF met = "ok"
        THEN [kind |-> "dict",
              cipher_name |-> wire.cipher[1],
              protocol |-> wire.cipher[2],
              bits |-> wire.cipher[3],
              is_weak |-> IsWeak(wire.cipher)]
        ELSE IF met = "hung" THEN Hung
        ELSE IF ExceptException(met) THEN None
        ELSE Raised(met)

\* Cipher names an OpenSSL build reports, as tuples of characters.
CipherNames ==
    { <<"R","C","4","-","S","H","A">>,
      <<"E","C","D","H","E","-","R","S","A","-","R","C","4","-","S","H","A">>,
      <<"D","E","S","-","C","B","C","3","-","S","H","A">>,
      <<"E","C","D","H","E","-","R","S","A","-","D","E","S","-","C","B","C","3","-","S","H","A">>,
      <<"R","C","2","-","C","B","C","-","M","D","5">>,
      <<"A","E","S","1","2","8","-","S","H","A">>,
      <<"A","E","S","2","5","6","-","G","C","M","-","S","H","A","3","8","4">>,
      <<"T","L","S","_","A","E","S","_","2","5","6","_","G","C","M","_","S","H","A","3","8","4">> }

Protocols == {"TLSv1.2", "TLSv1.3"}

BitCounts == {0, 40, 56, 112, 127, 128, 168, 256}

Ciphers == CipherNames \X Protocols \X BitCounts

\* Everything a connection of analyze_cipher_strength can meet.
CipherWires ==
    {[kind |-> "ok", cipher |-> c] : c \in Ciphers}
        \cup {[kind |-> k] : k \in SocketErrors \cup {"silent"}}

NoWire == [kind |-> "none"]

CipherIdle == tls = NoWire /\ cipher_info = Idle

(***************************************************************************)
(* get_cert_info and cert_cache (src/CertInspector.py:36-62)               *)
(***************************************************************************)

\* The names a resolver knows, as the tokens of the text: pieces, "." and " ".
Hosts == { <<"example", ".", "com">>, <<"self", ".", "test">> }

\* One relative distinguished name holding the single attribute (k, v).
Rdn(k, v) == << <<k, v>> >>

CaName ==
    << Rdn("countryName", "US"), Rdn("organizationName", "Let's Encrypt"),
       Rdn("commonName", "R3") >>

AcmeName == << Rdn("organizationName", "Acme"), Rdn("commonName", "self.test") >>

\* Certificates as ssock.getpeercert() returns them: issuer and subject are
\* tuples of RDNs, an RDN a tuple of (name, value) pairs.
CertCA ==
    [issuer |-> CaName, subject |-> << Rdn("commonName", "example.com") >>,
     notBefore |-> <<"Jan", 1, 0, 0, 0, 2024, "GMT">>,
     notAfter |-> <<"Mar", 31, 1, 0, 0, 2024, "GMT">>,
     serialNumber |-> "0A"]

\* The certificate example.com presents after a renewal.
CertRenewed ==
    [issuer |-> CaName, subject |-> << Rdn("commonName", "example.com") >>,
     notBefore |-> <<"Mar", 1, 0, 0, 0, 2024, "GMT">>,
     notAfter |-> <<"Mar", 30, 23, 0, 0, 2024, "GMT">>,
     serialNumber |-> "0B"]

\* An issuer with two domainComponent attributes, the subject with one.
CertDupAttr ==
    [issuer |-> << Rdn("domainComponent", "com"), Rdn("domainComponent", "example"),
                   Rdn("commonName", "example.com") >>,
     subject |-> << Rdn("domainComponent", "example"), Rdn("commonName", "example.com") >>,
     notBefore |-> <<"Jan", 1, 0, 0, 0, 2024, "GMT">>,
     notAfter |-> <<"Mar", 31, 1, 0, 0, 2024, "GMT">>,
     serialNumber |-> "0C"]

\* No organizationName in the issuer, and no serialNumber key.
CertNoOrg ==
    [issuer |-> << Rdn("commonName", "Private CA") >>,
     subject |-> << Rdn("commonName", "example.com") >>,
     notBefore |-> <<"Jan", 1, 0, 0, 0, 2023, "GMT">>,
     notAfter |-> <<"Feb", 29, 12, 0, 0, 2024, "GMT">>]

CertSelf ==
    [issuer |-> AcmeName, subject |-> AcmeName,
     notBefore |-> <<"Jan", 1, 0, 0, 0, 2024, "GMT">>,
     notAfter |-> <<"Mar", 31, 1, 0, 0, 2024, "GMT">>,
     serialNumber |-> "01"]

\* Self-signed, the subject listing the same attributes in another order.
CertSelfPermuted ==
    [issuer |-> AcmeName,
     subject |-> << Rdn("commonName", "self.test"), Rdn("organizationName", "Acme") >>,
     notBefore |-> <<"Jan", 1, 0, 0, 0, 2024, "GMT">>,
     notAfter |-> <<"Mar", 30, 23, 0, 0, 2024, "GMT">>,
     serialNumber |-> "02"]

\* An issuer whose single RDN holds two attributes, the subject's only one.
CertMultiRdn ==
    [issuer |-> << << <<"commonName", "self.test">>, <<"organizationName", "Other">> >> >>,
     subject |-> << Rdn("commonName", "self.test") >>,
     notBefore |-> <<"Jan", 1, 0, 0, 0, 2024, "GMT">>,
     notAfter |-> <<"Feb", 29, 12, 0, 0, 2024, "GMT">>,
     serialNumber |-> "03"]

\* The empty dict getpeercert() returns for a certificate that was not
\* validated: every subscript of lines 49-56 raises KeyError on it.
CertUnvalidated == [k \in {} |-> k]

\* The certificates the listener of each host may present at a handshake.
Presents(dom) ==
    IF dom = <<"example", ".", "com">>
    THEN {CertCA, CertRenewed, CertDupAttr, CertNoOrg}
    ELSE IF dom = <<"self", ".", "test">>
    THEN {CertSelf, CertSelfPermuted, CertMultiRdn}
    ELSE {}

\* What the connection of get_cert_info(dom) can meet: a name no resolver
\* knows fails in getaddrinfo; a host presents a certificate, fails, or never
\* answers.
CertWires(dom) ==
    IF dom \in Hosts
    THEN {[kind |-> "ok", cert |-> c] : c \in Presents(dom) \cup {CertUnvalidated}}
             \cup {[kind |-> k] : k \in SocketErrors \cup {"silent"}}
    ELSE {[kind |-> "gaierror"]}

\* dict(pairs): a later pair replaces an earlier one with the same key.
RECURSIVE PyDict(_)
PyDict(pairs) ==
    IF pairs = <<>> THEN <<>>
    ELSE LET n == Len(pairs)
             d == PyDict(SubSeq(pairs, 1, n - 1))
         IN  [k \in DOMAIN d \cup {pairs[n][1]} |->
                 IF k = pairs[n][1] THEN pairs[n][2] ELSE d[k]]

\* dict(x[0] for x in name): the first pair of every RDN.
FirstPairs(name) == [i \in 1..Len(name) |-> name[i][1]]

\* d.get(key, default)
PyGet(d, key, default) == IF key \in DOMAIN d THEN d[key] ELSE default

\* The keys lines 49-56 subscript: a missing one raises KeyError.
RequiredKeys == {"issuer", "subject", "notBefore", "notAfter"}

\* Lines 49-59: the dict cert_info built from the peer certificate.
BuildCertInfo(dom, cert) ==
    LET issuer == PyDict(FirstPairs(cert.issuer))
        subject == PyDict(FirstPairs(cert.subject))
    IN  [domain |-> dom,
         issuer |-> PyGet(issuer, "organizationName", "Unknown"),
         valid_from |-> cert.notBefore,
         valid_to |-> cert.notAfter,
         serial_number |-> PyGet(cert, "serialNumber", "N/A"),
         is_self_signed |-> (issuer = subject)]

\* The frame of one call: where it stands (the line it is about to run, or how
\* it ended), its argument, and its locals cert and cert_info.
NoCert == [none |-> TRUE]
NoInfo == [none |-> TRUE]
NoFrame == [pc |-> "idle", domain |-> <<>>, cert |-> NoCert, cert_info |-> NoInfo,
            exc |-> "none"]
Call(dom) == [NoFrame EXCEPT !.pc = "line 40", !.domain = dom]

\* The threads that run get_cert_info: the event loop's thread (Export JSON)
\* and a worker of the ThreadPoolExecutor (Scan).
Threads == {"MainThread", "Worker"}

CacheIdle == cert_cache = <<>> /\ gci = [t \in Threads |-> NoFrame]

\* cert_cache[domain] = cert_info, storing only while the record is being
\* filled (an entry holding the domain alone).
CachePutPartial(cache, dom, info) ==
    [d \in DOMAIN cache \cup {dom} |->
        IF d = dom THEN [domain |-> info.domain] ELSE cache[d]]

\* Line 61: cert_cache[domain] = cert_info, one dict store.
CachePut(cache, dom, info) ==
    [d \in DOMAIN cache \cup {dom} |-> IF d = dom THEN info ELSE cache[d]]

\* Lines 40-41 without the cache test: every call goes to the network.
GciCheckNoCache(t) ==
    /\ gci[t].pc = "line 40"
    /\ gci' = [gci EXCEPT ![t].pc = "line 43"]
    /\ UNCHANGED cert_cache

\* Lines 40-41: a cached domain returns the cached dict.
GciCheckCache(t) ==
    /\ gci[t].pc = "line 40"
    /\ IF gci[t].domain \in DOMAIN cert_cache
       THEN gci' = [gci EXCEPT ![t].pc = "returned",
                               ![t].cert_info = cert_cache[gci[t].domain]]
       ELSE gci' = [gci EXCEPT ![t].pc = "line 43"]
    /\ UNCHANGED cert_cache

\* Lines 43-46: connect, handshake, getpeercert. An error leaves the function;
\* a peer that never answers blocks the thread (the socket has no deadline).
GciHandshake(t) ==
    /\ gci[t].pc = "line 43"
    /\ \E wire \in CertWires(gci[t].domain) :
         LET met == IF wire.kind = "silent" THEN SilentPeer(SocketTimeout) ELSE wire.kind
         IN  gci' = IF met = "ok" THEN [gci EXCEPT ![t].pc = "line 49", ![t].cert = wire.cert]
                    ELSE IF met = "hung" THEN [gci EXCEPT ![t].pc = "hung"]
                    ELSE [gci EXCEPT ![t].pc = "raised", ![t].exc = met]
    /\ UNCHANGED cert_cache

\* Lines 49-59 with the cache written before the certificate is read: a
\* certificate without a key leaves an entry behind.
GciBuildStoresFirst(t) ==
    /\ gci[t].pc = "line 49"
    /\ IF RequiredKeys \subseteq DOMAIN gci[t].cert
       THEN /\ gci' = [gci EXCEPT ![t].pc = "line 61",
                                  ![t].cert_info = BuildCertInfo(gci[t].domain, gci[t].cert)]
            /\ cert_cache' = cert_cache
       ELSE /\ gci' = [gci EXCEPT ![t].pc = "raised", ![t].exc = "KeyError"]
            /\ cert_cache' = CachePut(cert_cache, gci[t].domain, [domain |-> gci[t].domain])

\* Lines 49-59: build the local dict cert_info.
GciBuild(t) ==
    /\ gci[t].pc = "line 49"
    /\ gci' = IF RequiredKeys \subseteq DOMAIN gci[t].cert
              THEN [gci EXCEPT ![t].pc = "line 61",
                               ![t].cert_info = BuildCertInfo(gci[t].domain, gci[t].cert)]
              ELSE [gci EXCEPT ![t].pc = "raised", ![t].exc = "KeyError"]
    /\ UNCHANGED cert_cache

\* Lines 61-62: store it in the cache and return it.
GciStore(t) ==
    /\ gci[t].pc = "line 61"
    /\ cert_cache' = CachePut(cert_cache, gci[t].domain, gci[t].cert_info)
    /\ gci' = [gci EXCEPT ![t].pc = "returned"]

\* One step of thread t inside get_cert_info.
GciStep(t) ==
    \/ GciCheckCache(t)
    \/ GciHandshake(t)
    \/ GciBuild(t)
    \/ GciStore(t)

\* The end dates tried: around the turn of February 2024 (a leap year), with
\* fields that strptime rejects among them (Feb 30, Foo, hour 24).
ExpiryDates ==
    {<<b, d, h, 0, sec, y, "GMT">> :
        b \in {"Jan", "Feb", "Mar", "Foo"}, d \in {1, 28, 29, 30, 31},
        h \in {0, 1, 12, 23, 24}, sec \in {0, 59}, y \in {2023, 2024}}

\* The instants utcnow() returns in the runs checked.
Nows ==
    {[ok |-> TRUE, year |-> 2024, month |-> m, day |-> d, hour |-> h, minute |-> 0,
      second |-> 0, microsecond |-> us] :
        m \in {2, 3}, d \in {1, 29}, h \in {0, 12}, us \in {0, 1, 999999}}

ExpiryIdle ==
    /\ expiry_date = <<"Jan", 1, 0, 0, 0, 2024, "GMT">>
    /\ utcnow = CHOOSE n \in Nows : n.month = 2 /\ n.day = 1 /\ n.hour = 0 /\ n.microsecond = 0
    /\ days_left = NotCalled

(***************************************************************************)
(* check_cert_transparency (src/CertInspector.py:64-71)                    *)
(***************************************************************************)

\* The timeout argument of requests.get, in seconds.
RequestTimeout == 10

\* The longest list of entries the aggregator answers with in the runs checked.
MaxEntries == 2

\* Values response.json() can return: a list of entries, an object, null.
JsonList(n) == [type |-> "list", items |-> [i \in 1..n |-> [id |-> i]]]
JsonObject == [type |-> "dict", keys |-> {"error"}]
JsonNull == [type |-> "NoneType"]
EmptyList == JsonList(0)

JsonValues == {JsonList(n) : n \in 0..MaxEntries} \cup {JsonObject, JsonNull}

\* The body of a response: JSON text with its value, or some other text.
Bodies == {[json |-> TRUE, value |-> v] : v \in JsonValues} \cup {[json |-> FALSE]}

\* What requests.get(CRTSH_URL.format(domain), timeout=10) can meet: a
\* response, a network error, or a peer that never answers.
HttpWires ==
    {[kind |-> "response", status |-> 200, body |-> b] : b \in Bodies}
        \cup {[kind |-> "response", status |-> st, body |-> b] :
                 st \in {404, 500}, b \in {[json |-> FALSE], [json |-> TRUE, value |-> JsonList(1)]}}
        \cup {[kind |-> k] : k \in {"ConnectionError", "ConnectTimeout", "silent"}}

Returned(v) == [kind |-> "returned", value |-> v]

\* Line 68 taking the body of every response, whatever its status.
CtValueAnyStatus(resp) == IF resp.body.json THEN resp.body.value ELSE EmptyList

\* Line 68: response.json() if response.status_code == 200 else []
CtValue(resp) == IF resp.status = 200 THEN resp.body.value ELSE EmptyList

\* The whole call, given what the request meets.
check_cert_transparency(wire) ==
    LET met == IF wire.kind = "silent" THEN SilentPeer({RequestTimeout}) ELSE wire.kind
        thrown == IF met = "response"
                  THEN (IF wire.status = 200 /\ ~wire.body.json
                        THEN "JSONDecodeError" ELSE "none")
                  ELSE met
    IN  IF thrown = "none" THEN Returned(CtValue(wire))
        ELSE IF thrown = "hung" THEN Hung
        ELSE IF ExceptException(thrown) THEN Returned(EmptyList)
        ELSE Raised(thrown)

\* The ended call r, with what its request met kept beside it.
Met(r, wire) == [k \in DOMAIN r \cup {"wire"} |-> IF k = "wire" THEN wire ELSE r[k]]

\* len(v): a list's length, a dict's number of keys; TypeError for the rest.
PyLen(v) ==
    IF v.type = "list" THEN [kind |-> "int", val |-> Len(v.items)]
    ELSE IF v.type = "dict" THEN [kind |-> "int", val |-> Cardinality(v.keys)]
    ELSE [kind |-> "TypeError", val |-> 0]

(***************************************************************************)
(* main (src/CertInspector.py:122-205)                                     *)
(* The text of the window's widgets is not part of the state; the locals   *)
(* of main are dead at window.read() and are reset there.                  *)
(***************************************************************************)

\* Texts of the domain box, as tokens: " " is white space.
DomainTexts ==
    { <<>>, <<" ">>,
      <<"example", ".", "com">>, <<" ", "example", ".", "com", " ">>,
      <<"self", ".", "test">>,
      <<"https://", "example", ".", "com", "/path">> }

\* str.strip(): without the leading and the trailing white space.
RECURSIVE strip(_)
strip(text) ==
    IF text = <<>> THEN text
    ELSE IF Head(text) = " " THEN strip(Tail(text))
    ELSE IF text[Len(text)] = " " THEN strip(SubSeq(text, 1, Len(text) - 1))
    ELSE text

\* domain.replace('.', '_')
ReplaceDots(text) == [i \in 1..Len(text) |-> IF text[i] = "." THEN "_" ELSE text[i]]

\* Line 199: f"ssl_report_{domain.replace('.', '_')}.json"
Filename(d) == <<"ssl_report_">> \o ReplaceDots(d) \o <<".json">>

\* The ciphers met by the handshakes of main in the runs checked.
MainCiphers ==
    { << <<"T","L","S","_","A","E","S","_","2","5","6","_","G","C","M","_","S","H","A","3","8","4">>,
         "TLSv1.3", 256 >> }

\* What the connection of analyze_cipher_strength(d) can meet in main.
MainCipherWires(d) ==
    IF d \in Hosts
    THEN {[kind |-> "ok", cipher |-> c] : c \in MainCiphers}
             \cup {[kind |-> k] : k \in {"SSLError", "silent"}}
    ELSE {[kind |-> "gaierror"]}

NoCall == [kind |-> "not called"]
Running == [kind |-> "running"]
NoReport == [none |-> TRUE]

LocalsDead ==
    /\ domain = <<>>
    /\ cert_info = NoInfo
    /\ ct_logs = NoCall
    /\ ct = NoCall
    /\ exc = "none"
    /\ report = NoReport

MainIdle ==
    /\ pc = "line 126"
    /\ LocalsDead
    /\ files = <<>>
    /\ retrieved = <<>>

\* Back at window.read(): the locals are dead, the calls' frames are gone.
BackToRead ==
    /\ pc' = "line 126"
    /\ domain' = <<>>
    /\ cert_info' = NoInfo
    /\ ct_logs' = NoCall
    /\ ct' = NoCall
    /\ exc' = "none"
    /\ report' = NoReport
    /\ cipher_info' = Idle
    /\ tls' = NoWire
    /\ gci' = [t \in Threads |-> NoFrame]

\* History: main was handed record info by get_cert_info(d).
Log(d, info) ==
    [k \in DOMAIN retrieved \cup {d} |->
        IF k = d THEN PyGet(retrieved, d, {}) \cup {info} ELSE retrieved[k]]

\* Lines 126-129: the window was closed or Exit pressed; window.close().
ReadClose ==
    /\ pc = "line 126"
    /\ pc' = "closed"
    /\ UNCHANGED <<domain, cert_info, ct_logs, ct, exc, report, files, retrieved>>
    /\ UNCHANGED <<expiryVars, cipherVars, cacheVars>>

\* Lines 131-134: Clear.
ReadClear ==
    /\ pc = "line 126"
    /\ UNCHANGED vars

\* Lines 136-139: Scan, Check Ciphers or Export JSON with a box that strips to
\* nothing: popup_error and back to window.read().
ReadEmptyDomain ==
    /\ pc = "line 126"
    /\ \E text \in DomainTexts : strip(text) = <<>>
    /\ UNCHANGED vars

\* Lines 136-145: Scan with a domain; the with block is entered.
ReadScan ==
    /\ pc = "line 126"
    /\ \E text \in DomainTexts :
         /\ strip(text) # <<>>
         /\ domain' = strip(text)
    /\ pc' = "line 146"
    /\ UNCHANGED <<cert_info, ct_logs, ct, exc, report, files, retrieved>>
    /\ UNCHANGED <<expiryVars, cipherVars, cacheVars>>

\* Line 146: executor.submit(get_cert_info, domain).
ScanSubmitCert ==
    /\ pc = "line 146"
    /\ gci' = [gci EXCEPT !["Worker"] = Call(domain)]
    /\ pc' = "line 147"
    /\ UNCHANGED <<domain, cert_info, ct_logs, ct, exc, report, files, retrieved>>
    /\ UNCHANGED <<expiryVars, cipherVars, cert_cache>>

\* Line 147: executor.submit(check_cert_transparency, domain).
ScanSubmitCt ==
    /\ pc = "line 147"
    /\ ct' = Running
    /\ pc' = "line 149"
    /\ UNCHANGED <<domain, cert_info, ct_logs, exc, report, files, retrieved>>
    /\ UNCHANGED <<expiryVars, cipherVars, cacheVars>>

\* The pool's thread running check_cert_transparency(domain) to its end.
CtTask ==
    /\ ct = Running
    /\ \E wire \in HttpWires : ct' = Met(check_cert_transparency(wire), wire)
    /\ UNCHANGED <<pc, domain, cert_info, ct_logs, exc, report, files, retrieved>>
    /\ UNCHANGED <<expiryVars, cipherVars, cacheVars>>

\* Line 149: cert_future.result() hands over the record, or re-raises.
ScanCertResult ==
    /\ pc = "line 149"
    /\ gci["Worker"].pc \in {"returned", "raised"}
    /\ IF gci["Worker"].pc = "returned"
       THEN /\ cert_info' = gci["Worker"].cert_info
            /\ retrieved' = Log(domain, gci["Worker"].cert_info)
            /\ pc' = "line 150"
            /\ exc' = exc
       ELSE /\ exc' = gci["Worker"].exc
            /\ pc' = "line 150 exit"
            /\ UNCHANGED <<cert_info, retrieved>>
    /\ UNCHANGED <<domain, ct_logs, ct, report, files>>
    /\ UNCHANGED <<expiryVars, cipherVars, cacheVars>>

\* Line 150: ct_future.result().
ScanCtResult ==
    /\ pc = "line 150"
    /\ ct.kind \in {"returned", "raised"}
    /\ IF ct.kind = "returned"
       THEN ct_logs' = ct.value /\ exc' = exc
       ELSE ct_logs' = ct_logs /\ exc' = ct.exc
    /\ pc' = "line 150 exit"
    /\ UNCHANGED <<domain, cert_info, ct, report, files, retrieved>>
    /\ UNCHANGED <<expiryVars, cipherVars, cacheVars>>

\* The end of the with block with executor.shutdown(wait=False): a pending
\* exception leaves main at once.
ScanExitRaiseNoWait ==
    /\ pc = "line 150 exit"
    /\ exc # "none"
    /\ pc' = "crashed"
    /\ UNCHANGED <<domain, cert_info, ct_logs, ct, exc, report, files, retrieved>>
    /\ UNCHANGED <<expiryVars, cipherVars, cacheVars>>

\* The end of the with block: executor.shutdown(wait=True) returns once both
\* tasks have ended; a pending exception then leaves main.
ScanExitRaise ==
    /\ pc = "line 150 exit"
    /\ gci["Worker"].pc \in {"returned", "raised"}
    /\ ct.kind \in {"returned", "raised"}
    /\ exc # "none"
    /\ pc' = "crashed"
    /\ UNCHANGED <<domain, cert_info, ct_logs, ct, exc, report, files, retrieved>>
    /\ UNCHANGED <<expiryVars, cipherVars, cacheVars>>

\* The end of the with block, then lines 153-169: days_until_expiry of the
\* record's valid_to and the display.
ScanDisplay ==
    /\ pc = "line 150 exit"
    /\ gci["Worker"].pc \in {"returned", "raised"}
    /\ ct.kind \in {"returned", "raised"}
    /\ exc = "none"
    /\ \E now \in Nows :
         IF days_until_expiry(cert_info.valid_to, now).kind = "int"
         THEN BackToRead /\ UNCHANGED <<files, retrieved>>
         ELSE /\ pc' = "crashed"
              /\ exc' = "ValueError"
              /\ UNCHANGED <<domain, cert_info, ct_logs, ct, report, files, retrieved>>
              /\ UNCHANGED <<cipherVars, gci>>
    /\ UNCHANGED <<expiryVars, cert_cache>>

\* Lines 136-139 and 171-172: Check Ciphers with a domain;
\* analyze_cipher_strength(domain) runs in the event loop's thread.
ReadCheckCiphers ==
    /\ pc = "line 126"
    /\ \E text \in DomainTexts :
         /\ strip(text) # <<>>
         /\ domain' = strip(text)
         /\ \E wire \in MainCipherWires(strip(text)) :
              /\ tls' = wire
              /\ cipher_info' = analyze_cipher_strength(wire)
              /\ pc' = IF analyze_cipher_strength(wire).kind = "hung"
                       THEN "line 172" ELSE "line 173"
    /\ UNCHANGED <<cert_info, ct_logs, ct, exc, report, files, retrieved>>
    /\ UNCHANGED <<expiryVars, cacheVars>>

\* Lines 173-184: the cipher section is appended to the output, if any.
CheckCiphersShow ==
    /\ pc = "line 173"
    /\ IF cipher_info.kind = "raised"
       THEN /\ pc' = "crashed"
            /\ exc' = cipher_info.exc
            /\ UNCHANGED <<domain, cert_info, ct_logs, ct, report>>
            /\ UNCHANGED <<cipherVars, gci>>
       ELSE BackToRead
    /\ UNCHANGED <<files, retrieved>>
    /\ UNCHANGED <<expiryVars, cert_cache>>

\* Lines 136-139 and 186-187: Export JSON with a domain; get_cert_info(domain)
\* is called in the event loop's thread.
ReadExport ==
    /\ pc = "line 126"
    /\ \E text \in DomainTexts :
         /\ strip(text) # <<>>
         /\ domain' = strip(text)
         /\ gci' = [gci EXCEPT !["MainThread"] = Call(strip(text))]
    /\ pc' = "line 187"
    /\ UNCHANGED <<cert_info, ct_logs, ct, exc, report, files, retrieved>>
    /\ UNCHANGED <<expiryVars, cipherVars, cert_cache>>

\* Line 187: get_cert_info returns its record, or its exception leaves main.
ExportCertResult ==
    /\ pc = "line 187"
    /\ gci["MainThread"].pc \in {"returned", "raised"}
    /\ IF gci["MainThread"].pc = "returned"
       THEN /\ cert_info' = gci["MainThread"].cert_info
            /\ retrieved' = Log(domain, gci["MainThread"].cert_info)
            /\ pc' = "line 188"
            /\ exc' = exc
       ELSE /\ exc' = gci["MainThread"].exc
            /\ pc' = "crashed"
            /\ UNCHANGED <<cert_info, retrieved>>
    /\ UNCHANGED <<domain, ct_logs, ct, report, files>>
    /\ UNCHANGED <<expiryVars, cipherVars, cacheVars>>

\* Line 188 run before line 187: the analysis starts while get_cert_info has
\* not yet run.
ExportAnalyzeBeforeCert ==
    /\ pc = "line 187"
    /\ gci["MainThread"].pc = "line 40"
    /\ cipher_info = Idle
    /\ \E wire \in MainCipherWires(domain) :
         /\ tls' = wire
         /\ cipher_info' = analyze_cipher_strength(wire)
    /\ UNCHANGED <<pc, domain, cert_info, ct_logs, ct, exc, report, files, retrieved>>
    /\ UNCHANGED <<expiryVars, cacheVars>>

\* Line 188 storing the assessment in cert_cache under the domain.
ExportAnalyzeCaching ==
    /\ pc = "line 188"
    /\ \E wire \in MainCipherWires(domain) :
         /\ tls' = wire
         /\ cipher_info' = analyze_cipher_strength(wire)
         /\ cert_cache' = CachePut(cert_cache, domain, analyze_cipher_strength(wire))
         /\ pc' = IF analyze_cipher_strength(wire).kind = "hung" THEN "line 188"
                  ELSE "line 189"
    /\ cipher_info.kind # "hung"
    /\ UNCHANGED <<domain, cert_info, ct_logs, ct, exc, report, files, retrieved>>
    /\ UNCHANGED <<expiryVars, gci>>

\* Line 188: cipher_info = analyze_cipher_strength(domain).
ExportAnalyze ==
    /\ pc = "line 188"
    /\ \E wire \in MainCipherWires(domain) :
         /\ tls' = wire
         /\ cipher_info' = analyze_cipher_strength(wire)
         /\ pc' = IF analyze_cipher_strength(wire).kind = "hung" THEN "line 188"
                  ELSE IF analyze_cipher_strength(wire).kind = "raised" THEN "crashed"
                  ELSE "line 189"
         /\ exc' = IF analyze_cipher_strength(wire).kind = "raised"
                   THEN analyze_cipher_strength(wire).exc ELSE exc
    /\ cipher_info.kind # "hung"
    /\ UNCHANGED <<domain, cert_info, ct_logs, ct, report, files, retrieved>>
    /\ UNCHANGED <<expiryVars, cacheVars>>

\* Line 189: ct_logs = check_cert_transparency(domain).
ExportCt ==
    /\ pc = "line 189"
    /\ \E wire \in HttpWires :
         LET r == check_cert_transparency(wire)
         IN  /\ ct' = Met(r, wire)
             /\ ct_logs' = IF r.kind = "returned" THEN r.value ELSE ct_logs
             /\ pc' = IF r.kind = "returned" THEN "line 191"
                      ELSE IF r.kind = "raised" THEN "crashed" ELSE "line 189"
             /\ exc' = IF r.kind = "raised" THEN r.exc ELSE exc
    /\ ct.kind # "hung"
    /\ UNCHANGED <<domain, cert_info, report, files, retrieved>>
    /\ UNCHANGED <<expiryVars, cipherVars, cacheVars>>

\* Lines 191-197: the report dict; len(ct_logs) raises TypeError when ct_logs
\* has no length.
ExportReport ==
    /\ pc = "line 191"
    /\ IF PyLen(ct_logs).kind = "int"
       THEN /\ report' = [domain |-> domain,
                          certificate |-> cert_info,
                          cipher |-> cipher_info,
                          ct_log_entries |-> PyLen(ct_logs).val,
                          scan_time |-> "utcnow().isoformat()"]
            /\ pc' = "line 199"
            /\ exc' = exc
       ELSE /\ report' = report
            /\ pc' = "crashed"
            /\ exc' = "TypeError"
    /\ UNCHANGED <<domain, cert_info, ct_logs, ct, files, retrieved>>
    /\ UNCHANGED <<expiryVars, cipherVars, cacheVars>>

\* Lines 199-203: the report is dumped into its file (open can fail).
ExportWrite ==
    /\ pc = "line 199"
    /\ \/ /\ files' = [f \in DOMAIN files \cup {Filename(domain)} |->
                          IF f = Filename(domain) THEN report ELSE files[f]]
          /\ BackToRead
          /\ UNCHANGED retrieved
       \/ /\ pc' = "crashed"
          /\ exc' = "OSError"
          /\ UNCHANGED <<domain, cert_info, ct_logs, ct, report, files, retrieved>>
          /\ UNCHANGED <<cipherVars, gci>>
    /\ UNCHANGED <<expiryVars, cert_cache>>

\* The thread that is inside get_cert_info, if any, takes a step.
GciRun(t) ==
    /\ GciStep(t)
    /\ UNCHANGED <<expiryVars, cipherVars, mainVars>>

Init ==
    /\ MainIdle
    /\ CacheIdle
    /\ CipherIdle
    /\ ExpiryIdle

Next ==
    \/ ReadClose
    \/ ReadClear
    \/ ReadEmptyDomain
    \/ ReadScan
    \/ ScanSubmitCert
    \/ ScanSubmitCt
    \/ CtTask
    \/ ScanCertResult
    \/ ScanCtResult
    \/ ScanExitRaise
    \/ ScanDisplay
    \/ ReadCheckCiphers
    \/ CheckCiphersShow
    \/ ReadExport
    \/ ExportCertResult
    \/ ExportAnalyze
    \/ ExportCt
    \/ ExportReport
    \/ ExportWrite
    \/ \E t \in Threads : GciRun(t)

Spec == Init /\ [][Next]_vars

(***************************************************************************)
(* The functions on their own                                              *)
(***************************************************************************)

\* days_until_expiry applied once to each end date and each instant.
InitExpiry ==
    /\ expiry_date \in ExpiryDates
    /\ utcnow \in Nows
    /\ days_left = NotCalled
    /\ CipherIdle
    /\ CacheIdle
    /\ MainIdle

CallDaysUntilExpiry ==
    /\ days_left = NotCalled
    /\ days_left' = days_until_expiry(expiry_date, utcnow)
    /\ UNCHANGED <<expiry_date, utcnow>>
    /\ UNCHANGED <<cipherVars, cacheVars, mainVars>>

NextExpiry == CallDaysUntilExpiry

SpecExpiry == InitExpiry /\ [][NextExpiry]_vars

\* The function called on its own, again and again while it returns.
InitCipher ==
    /\ CipherIdle
    /\ ExpiryIdle
    /\ CacheIdle
    /\ MainIdle

CallAnalyzeCipherStrength ==
    /\ cipher_info.kind # "hung"
    /\ \E wire \in CipherWires :
         /\ tls' = wire
         /\ cipher_info' = analyze_cipher_strength(wire)
    /\ UNCHANGED <<expiryVars, cacheVars, mainVars>>

NextCipher == CallAnalyzeCipherStrength

SpecCipher == InitCipher /\ [][NextCipher]_vars

\* get_cert_info called from two threads with no order between the calls.
InitPar ==
    /\ CacheIdle
    /\ CipherIdle
    /\ ExpiryIdle
    /\ MainIdle

\* A thread whose last call has ended (or that has made none) calls again.
ParCall(t) ==
    /\ gci[t].pc \in {"idle", "returned", "raised"}
    /\ \E host \in Hosts : gci' = [gci EXCEPT ![t] = Call(host)]
    /\ UNCHANGED cert_cache

NextPar ==
    \/ \E t \in Threads : ParCall(t) /\ UNCHANGED <<expiryVars, cipherVars, mainVars>>
    \/ \E t \in Threads : GciCheckCache(t) /\ UNCHANGED <<expiryVars, cipherVars, mainVars>>
    \/ \E t \in Threads : GciHandshake(t) /\ UNCHANGED <<expiryVars, cipherVars, mainVars>>
    \/ \E t \in Threads : GciBuild(t) /\ UNCHANGED <<expiryVars, cipherVars, mainVars>>
    \/ \E t \in Threads : GciStore(t) /\ UNCHANGED <<expiryVars, cipherVars, mainVars>>

SpecPar == InitPar /\ [][NextPar]_vars

(***************************************************************************)
(* Claims                                                                  *)
(***************************************************************************)

\* Seconds from 2023-01-01 00:00:00 to the naive datetime dt.
Instant(dt) ==
    (toordinal(dt) - toordinal([year |-> 2023, month |-> 1, day |-> 1])) * 86400
        + SecondsOfDay(dt)

At(date, now) == expiry_date = date /\ utcnow = now /\ days_left.kind = "int"

Clock(mo, d, h, us) ==
    [ok |-> TRUE, year |-> 2024, month |-> mo, day |-> d, hour |-> h, minute |-> 0,
     second |-> 0, microsecond |-> us]

\* C8: whenever the end date parses, the result r of days_until_expiry is the
\* floor of (end - now) in days: now + r days <= end < now + (r + 1) days,
\* comparing instants as (second, microsecond); an end 12 h ahead gives 0,
\* 12 h in the past -1, 30 days + 1 h ahead 30 and 30 days - 1 h ahead 29.
C8_DaysRemainingIsFloor ==
    /\ days_left.kind = "int" =>
         LET r == days_left.val
             es == Instant(strptime(expiry_date))
             ns == Instant(utcnow)
             nus == utcnow.microsecond
         IN  /\ (ns + r * 86400 < es) \/ (ns + r * 86400 = es /\ nus = 0)
             /\ (es < ns + (r + 1) * 86400) \/ (es = ns + (r + 1) * 86400 /\ nus > 0)
    /\ At(<<"Feb", 29, 12, 0, 0, 2024, "GMT">>, Clock(2, 29, 0, 0)) => days_left.val = 0
    /\ At(<<"Feb", 29, 12, 0, 0, 2024, "GMT">>, Clock(3, 1, 0, 0)) => days_left.val = -1
    /\ At(<<"Mar", 31, 1, 0, 0, 2024, "GMT">>, Clock(3, 1, 0, 0)) => days_left.val = 30
    /\ At(<<"Mar", 30, 23, 0, 0, 2024, "GMT">>, Clock(3, 1, 0, 0)) => days_left.val = 29

\* C8's case: an end date 12 hours in the past has been evaluated, to -1.
C8_Witness ==
    /\ At(<<"Feb", 29, 12, 0, 0, 2024, "GMT">>, Clock(3, 1, 0, 0))
    /\ days_left.val = -1

\* name[i..i+2] spells the three characters a, b, c somewhere in name.
HasMarker(name, a, b, c) ==
    \E i \in 1..(Len(name) - 2) : name[i] = a /\ name[i + 1] = b /\ name[i + 2] = c

\* C4: a returned assessment has is_weak true exactly when the negotiated name
\* contains RC4 or contains DES or the negotiated bits are below 128.
C4_IsWeakIff ==
    cipher_info.kind = "dict" =>
        /\ tls.kind = "ok"
        /\ cipher_info.is_weak =
              (\/ HasMarker(tls.cipher[1], "R", "C", "4")
               \/ HasMarker(tls.cipher[1], "D", "E", "S")
               \/ tls.cipher[3] < 128)

\* C4's cases: RC4 at 256 bits is weak; 128 bits without a marker is not.
C4_Witness ==
    /\ cipher_info.kind = "dict"
    /\ \/ (HasMarker(cipher_info.cipher_name, "R", "C", "4") /\ cipher_info.bits = 256
            /\ cipher_info.is_weak)
       \/ (cipher_info.bits = 128 /\ ~cipher_info.is_weak)

\* C5: a call of analyze_cipher_strength never ends with an exception in its
\* caller: a connection or handshake error ends it with None, a completed
\* handshake with the assessment of the negotiated cipher.
C5_AnalyzeNeverRaises ==
    /\ cipher_info.kind # "raised"
    /\ tls.kind \in SocketErrors => cipher_info = None
    /\ tls.kind = "ok" =>
          /\ cipher_info.kind = "dict"
          /\ <<cipher_info.cipher_name, cipher_info.protocol, cipher_info.bits>> = tls.cipher

\* C5's case: name resolution failed and the call returned None.
C5_Witness == tls.kind = "gaierror" /\ cipher_info = None

\* Every (name, value) pair of a distinguished name, over all its RDNs.
Attrs(name) == UNION {{name[i][j] : j \in 1..Len(name[i])} : i \in 1..Len(name)}

CertInfoKeys ==
    {"domain", "issuer", "valid_from", "valid_to", "serial_number", "is_self_signed"}

\* C2: an entry of cert_cache, once there, stays there with the same value in
\* every step, whatever the interleaving of the get_cert_info calls.
C2_CacheWriteOnce ==
    [][\A d \in DOMAIN cert_cache :
          d \in DOMAIN cert_cache' /\ cert_cache'[d] = cert_cache[d]]_vars

\* C3: the record get_cert_info builds from a peer certificate has
\* is_self_signed true exactly when the issuer's set of attributes equals the
\* subject's.
C3_SelfSignedIffAttributeSetsEqual ==
    \A t \in Threads :
        gci[t].pc = "line 61" =>
            gci[t].cert_info.is_self_signed
                = (Attrs(gci[t].cert.issuer) = Attrs(gci[t].cert.subject))

\* C9: under every interleaving, each entry of cert_cache is one complete
\* record (all six keys) whose domain is its key and whose dates and serial
\* number come from one certificate that host presents; a returned record is
\* a record of the domain asked for.
C9_NoTornCacheEntry ==
    /\ \A d \in DOMAIN cert_cache :
          LET r == cert_cache[d]
          IN  /\ DOMAIN r = CertInfoKeys
              /\ r.domain = d
              /\ \E c \in Presents(d) :
                    /\ r.valid_from = c.notBefore /\ r.valid_to = c.notAfter
                    /\ r.serial_number =
                          (IF "serialNumber" \in DOMAIN c THEN c.serialNumber ELSE "N/A")
    /\ \A t \in Threads :
          gci[t].pc = "returned" =>
              DOMAIN gci[t].cert_info = CertInfoKeys /\ gci[t].cert_info.domain = gci[t].domain

\* C9's case: a thread is about to store a record for a domain while the cache
\* already holds another thread's different record for it.
C9_Witness ==
    \E t \in Threads :
        /\ gci[t].pc = "line 61"
        /\ gci[t].domain \in DOMAIN cert_cache
        /\ cert_cache[gci[t].domain] # gci[t].cert_info

\* C1: every record main was handed by get_cert_info for a domain is the
\* record it was handed first: per domain, the calls returned one value.
C1_RetrieveIdempotent ==
    \A d \in DOMAIN retrieved : Cardinality(retrieved[d]) <= 1

\* C1's case: a later call for a domain retrieved before has returned, through
\* the cache (it made no handshake), the record of the first call.
C1_Witness ==
    \E t \in Threads :
        /\ gci[t].pc = "returned"
        /\ gci[t].cert = NoCert
        /\ cert_info = gci[t].cert_info
        /\ domain \in DOMAIN retrieved
        /\ retrieved[domain] = {cert_info}

\* C6: check_cert_transparency never ends with an exception: it returns the
\* parsed body when the answer is HTTP 200 with a JSON body, and the empty list
\* for every other status, a timeout, a network error and a body that is no
\* JSON.
C6_CorrelateNeverRaises ==
    /\ ct.kind \in {"not called", "running", "returned"}
    /\ ct.kind = "returned" =>
          ct.value =
              (IF ct.wire.kind = "response" /\ ct.wire.status = 200 /\ ct.wire.body.json
               THEN ct.wire.body.value
               ELSE [type |-> "list", items |-> <<>>])

\* C6's case: the aggregator answered HTTP 500 (with a JSON list as its body)
\* and the call returned the empty list.
C6_Witness ==
    /\ ct.kind = "returned"
    /\ ct.wire.kind = "response" /\ ct.wire.status = 500 /\ ct.wire.body.json
    /\ ct.value = [type |-> "list", items |-> <<>>]

\* C7: on the Export JSON path the handler fails exactly when get_cert_info
\* raised: then no report exists; and once get_cert_info has returned, the
\* handler does not fail, whatever analyze_cipher_strength and
\* check_cert_transparency returned, the report holding cipher None after a
\* failed analysis and ct_log_entries 0 after an empty correlation.
C7_ScanFailsIffRetrieverFails ==
    /\ (pc = "crashed" /\ gci["MainThread"].pc # "idle") => gci["MainThread"].pc = "raised"
    /\ gci["MainThread"].pc = "raised" => report = NoReport
    /\ report # NoReport =>
          /\ report.certificate = gci["MainThread"].cert_info
          /\ cipher_info = None => report.cipher = None
          /\ ct_logs = EmptyList => report.ct_log_entries = 0

\* C10: no network operation of a handler blocks for good: a peer that never
\* answers ends the operation with a timeout error, so no call of
\* get_cert_info, analyze_cipher_strength or check_cert_transparency is ever
\* left waiting with nothing to end the wait.
C10_NoOperationHangs ==
    /\ \A t \in Threads : gci[t].pc # "hung"
    /\ cipher_info.kind # "hung"
    /\ ct.kind # "hung"

ScanLines == {"line 146", "line 147", "line 149", "line 150", "line 150 exit"}
ExportLines == {"line 187", "line 188", "line 189", "line 191", "line 199"}
Ended == {"returned", "raised"}

\* C11 as stated: in the Scan and the Export JSON handler, once
\* analyze_cipher_strength has been started, both get_cert_info and
\* check_cert_transparency of that handler have ended.
C11_AnalyzerAfterRetrieverAndCorrelator ==
    (pc \in ScanLines \cup ExportLines /\ cipher_info # Idle) =>
        /\ \E t \in Threads : gci[t].pc \in Ended
        /\ ct.kind \in Ended

\* C11 as amended: the Scan handler never starts analyze_cipher_strength; the
\* Export JSON handler starts it only after its get_cert_info has returned,
\* and starts check_cert_transparency only after the analysis has ended.
C11_AnalyzerAfterRetriever ==
    /\ pc \in ScanLines => cipher_info = Idle
    /\ (pc \in ExportLines /\ cipher_info # Idle) => gci["MainThread"].pc = "returned"
    /\ (pc \in ExportLines /\ ct # NoCall) => cipher_info.kind \in {"None", "dict"}

\* C11's case: Export JSON has run the analysis after get_cert_info returned,
\* and check_cert_transparency has not been called yet.
C11_Witness ==
    /\ pc = "line 189"
    /\ gci["MainThread"].pc = "returned"
    /\ cipher_info.kind = "dict"
    /\ ct = NoCall

\* C12: a step in which analyze_cipher_strength runs (its connection meets
\* the wire) leaves cert_cache and every get_cert_info frame as they were, and
\* its result is that of its own handshake: a dict exactly when the handshake
\* completed, of the cipher negotiated there, cached domain or not.
C12_AnalyzeLeavesCache ==
    [][(tls = NoWire /\ tls' # NoWire) =>
          /\ cert_cache' = cert_cache
          /\ gci' = gci
          /\ (cipher_info'.kind = "dict") = (tls'.kind = "ok")
          /\ tls'.kind = "ok" => cipher_info'.cipher_name = tls'.cipher[1]]_vars

\* C12's case: the domain is cached and the analysis, on its own handshake,
\* failed and returned None.
C12_Witness ==
    /\ domain \in DOMAIN cert_cache
    /\ tls.kind = "SSLError"
    /\ cipher_info = None

\* C13: in the Scan handler both tasks are submitted before either result is
\* awaited, and the handler leaves the with block, to display or with the
\* retriever's exception, only when both tasks have ended: after a failed
\* Scan no task is running.
C13_ScanJoinsBothTasks ==
    /\ [](/\ pc \in {"line 149", "line 150", "line 150 exit"} =>
               (gci["Worker"].pc # "idle" /\ ct # NoCall)
          /\ (pc = "crashed" /\ gci["Worker"].pc # "idle") =>
               (gci["Worker"].pc \in Ended /\ ct.kind \in Ended))
    /\ [][(pc \in ScanLines /\ pc' \notin ScanLines) =>
             (gci["Worker"].pc \in Ended /\ ct.kind \in Ended)]_vars

\* C13's case: the retriever has raised and the handler is held at the end of
\* the with block while the correlator still runs.
C13_Witness ==
    /\ pc = "line 150 exit"
    /\ exc # "none"
    /\ gci["Worker"].pc = "raised"
    /\ ct = Running

\* A DomainName: not empty, and no token is a scheme, a path or white space.
IsDomainName(d) ==
    d # <<>> /\ \A i \in 1..Len(d) : d[i] \notin {"https://", "/path", " "}

\* C14: every domain handed to get_cert_info, analyze_cipher_strength or
\* check_cert_transparency is a DomainName (for a text that is none, no call
\* is made).
C14_DomainNameInvariant ==
    /\ \A t \in Threads : gci[t].pc # "idle" => IsDomainName(gci[t].domain)
    /\ (ct # NoCall \/ tls # NoWire) => IsDomainName(domain)

\* C15: cert_cache changes only in the step in which a call stores its built
\* record at line 61 and returns (only that domain's entry changes); a step in
\* which a call ends with an exception leaves cert_cache as it was, so a
\* failed call for a domain nobody has stored leaves it without an entry.
C15_FailedRetrieveLeavesCache ==
    [][/\ cert_cache' # cert_cache =>
             \E t \in Threads :
                 /\ gci[t].pc = "line 61" /\ gci'[t].pc = "returned"
                 /\ DOMAIN cert_cache' = DOMAIN cert_cache \cup {gci[t].domain}
                 /\ \A d \in DOMAIN cert_cache' :
                       cert_cache'[d] = IF d = gci[t].domain THEN gci[t].cert_info
                                        ELSE cert_cache[d]
       /\ \A t \in Threads :
             (gci'[t].pc = "raised" /\ gci[t].pc # "raised") => cert_cache' = cert_cache]_vars

\* C15's case: a call has failed in reading the certificate's fields and its
\* domain has no entry, while the other thread's failed at the handshake.
C15_Witness ==
    /\ gci["Worker"].pc = "raised" /\ gci["Worker"].exc = "KeyError"
    /\ gci["Worker"].domain \notin DOMAIN cert_cache
    /\ gci["MainThread"].pc = "raised" /\ gci["MainThread"].exc \in SocketErrors

=============================================================================
